---- MODULE Spec2Model ----
(***************************************************************************)
(* Model of the search endpoint src/app/api/search/route.ts: one GET       *)
(* request handled from its first line to the response (or to the error    *)
(* that escapes the handler).  The collaborators getCacheTime,             *)
(* getStorage().getUserSettings, getAvailableApiSites and searchFromApi    *)
(* are the environment: each call is logged and its outcome (a value, a    *)
(* rejection) is chosen nondeterministically from a small set.             *)
(***************************************************************************)
EXTENDS Integers, Sequences, FiniteSets, TLC

VARIABLES
  request,        \* what the handler reads from the Request: q, user, include_adult, Authorization
  pc,             \* the handler's position: which await it is suspended at
  cacheTime,      \* const cacheTime (line 29); -1 before getCacheTime resolved
  cacheTimeCalls, \* number of getCacheTime() calls made
  settingsCalls,  \* arguments of the storage.getUserSettings(userName) calls, in order
  lookup,         \* outcome of the user-settings lookup of lines 53-59
  sitesCalls,     \* arguments of the getAvailableApiSites(flag) calls, in order
  availableSites, \* outcome of getAvailableApiSites (line 66)
  searchCalls,    \* <<site, query>> of every searchFromApi call, in order
  promises,       \* searchPromises (line 83): one promise per site, in site order
  settleOrder,    \* indexes of searchPromises in the order they settled
  response        \* <<>> while nothing was returned, <<r>> once GET returned r

vars == <<request, pc, cacheTime, cacheTimeCalls, settingsCalls, lookup,
          sitesCalls, availableSites, searchCalls, promises, settleOrder, response>>

----------------------------------------------------------------------------
(* Bounds and input sets *)

MaxSites == 2

Sites == {"s1", "s2"}
CacheTimes == {0, 7200}

\* JavaScript values the handler handles: null, undefined, or a string held
\* as the sequence of its characters.
JsNull == [t |-> "null", s |-> <<>>]
JsUndefined == [t |-> "undefined", s |-> <<>>]
JsStr(chars) == [t |-> "string", s |-> chars]

\* JavaScript truthiness of such a value: null, undefined and '' are falsy.
Truthy(v) == v.t = "string" /\ v.s # <<>>

\* searchParams.get('q'): null when missing
QueryParams == {JsNull, JsStr(<<>>), JsStr(<<"k">>)}
\* searchParams.get('user')
UserParams == {JsNull, JsStr(<<>>), JsStr(<<"a">>)}
\* searchParams.get('include_adult')
IncludeAdultParams ==
  {JsNull, JsStr(<<"t","r","u","e">>), JsStr(<<"T","r","u","e">>)}
\* request.headers.get('Authorization')
AuthHeaders ==
  {JsNull,
   JsStr(<<"B","e","a","r","e","r"," ","b">>),
   JsStr(<<"B","e","a","r","e","r"," ">>),
   JsStr(<<"B","e","a","r","e","r">>),
   JsStr(<<"b","e","a","r","e","r"," ","b">>)}

Requests ==
  [q : QueryParams, user : UserParams, include_adult : IncludeAdultParams,
   Authorization : AuthHeaders]

\* What getUserSettings may resolve to: null, undefined, or an object whose
\* filter_adult_content is absent, true, false, null or the string 'false'.
SettingsValues ==
  {[kind |-> "null", filter_adult_content |-> "absent"],
   [kind |-> "undefined", filter_adult_content |-> "absent"]}
  \cup [kind : {"object"},
        filter_adult_content : {"absent", "true", "false", "null", "string_false"}]

\* What getAvailableApiSites may resolve to: null, undefined or an array of sites.
SiteLists == UNION {[1..n -> Sites] : n \in 0..MaxSites}
SitesValues ==
  {[kind |-> "null", items |-> <<>>], [kind |-> "undefined", items |-> <<>>]}
  \cup [kind : {"array"}, items : SiteLists]

\* What one searchFromApi promise may fulfil with.
ResultLists == {<<>>, <<"r1">>, <<"r2", "r1">>}

----------------------------------------------------------------------------
(* Pure parts of the handler *)

\* String.prototype.startsWith
startsWith(str, prefix) ==
  /\ Len(str) >= Len(prefix)
  /\ \A i \in 1..Len(prefix) : str[i] = prefix[i]

\* String.prototype.substring(start): the characters from offset start on
substring(str, start) ==
  IF start >= Len(str) THEN <<>>
  ELSE [i \in 1..(Len(str) - start) |-> str[i + start]]

BearerPrefix == <<"B","e","a","r","e","r"," ">>
BearerPrefixLen == 7

\* const query = searchParams.get('q')
query(req) == req.q

\* A plausible slip: the Authorization header wins over the user parameter.
userName_headerFirst(req) ==
  IF req.Authorization.t = "string" /\ startsWith(req.Authorization.s, BearerPrefix)
    THEN JsStr(substring(req.Authorization.s, BearerPrefixLen))
    ELSE IF Truthy(req.user) THEN req.user ELSE JsUndefined

\* lines 20-26: the user parameter, else the text after 'Bearer '
userName(req) ==
  LET fromParam == IF Truthy(req.user) THEN req.user ELSE JsUndefined
      authHeader == req.Authorization
  IN  IF ~Truthy(fromParam)
        THEN IF Truthy(authHeader) /\ startsWith(authHeader.s, BearerPrefix)
               THEN JsStr(substring(authHeader.s, BearerPrefixLen))
               ELSE fromParam
        ELSE fromParam

\* A plausible slip: only a missing q counts as no query.
noQuery_nullOnly(req) == query(req).t = "null"

\* line 32: if (!query)
noQuery(req) == ~Truthy(query(req))

\* line 48: searchParams.get('include_adult') === 'true'
includeAdult(req) == req.include_adult = JsStr(<<"t","r","u","e">>)

\* A plausible slip: only an explicit true keeps the filter.
shouldFilterAdult_onlyTrue(userSettings) ==
  userSettings.kind = "object" /\ userSettings.filter_adult_content = "true"

\* line 56: userSettings?.filter_adult_content !== false
shouldFilterAdult(userSettings) ==
  LET v == IF userSettings.kind \in {"null", "undefined"}
             THEN "absent"
             ELSE userSettings.filter_adult_content
  IN  v # "false"

\* lines 51 and 58: the default, and the value set when the lookup throws
shouldFilterAdultDefault == TRUE

\* A plausible slip: && instead of ||.
finalShouldFilter_and(filterAdult, include) == filterAdult /\ ~include

\* line 63: shouldFilterAdult || !includeAdult
finalShouldFilter(filterAdult, include) == filterAdult \/ ~include

\* A plausible slip: the CDN headers left out.
cacheHeaders_noCdn(t) ==
  "Cache-Control" :> {<<"public", -1>>, <<"max-age", t>>, <<"s-maxage", t>>}

\* lines 36-40, 72-76, 93-97: each header is the set of its directives;
\* a directive without a value carries -1
cacheHeaders(t) ==
  ("Cache-Control" :> {<<"public", -1>>, <<"max-age", t>>, <<"s-maxage", t>>})
  @@ ("CDN-Cache-Control" :> {<<"public", -1>>, <<"s-maxage", t>>})
  @@ ("Vercel-CDN-Cache-Control" :> {<<"public", -1>>, <<"s-maxage", t>>})

\* NextResponse.json(body, init): status defaults to 200
jsonResponse(body, status, headers) ==
  [status |-> status, body |-> body, headers |-> headers, cors |-> FALSE]

\* addCorsHeaders(response): CORS headers added, the rest untouched
addCorsHeaders(r) == [r EXCEPT !.cors = TRUE]

\* lines 33-43: the response to a request without a query
emptyQueryResponse(t) ==
  addCorsHeaders(jsonResponse([regular_results |-> <<>>, adult_results |-> <<>>],
                              200, cacheHeaders(t)))

\* A plausible slip: no providers reported as an error.
noSitesResponse_error(t) ==
  addCorsHeaders(jsonResponse([regular_results |-> <<>>, adult_results |-> <<>>],
                              500, cacheHeaders(t)))

\* lines 69-79: the response when there are no available sites
noSitesResponse(t) ==
  addCorsHeaders(jsonResponse([regular_results |-> <<>>, adult_results |-> <<>>],
                              200, cacheHeaders(t)))

\* lines 102-106: the catch block's response ('搜索失败': "search failed")
errorResponse ==
  addCorsHeaders(jsonResponse([regular_results |-> <<>>, adult_results |-> <<>>,
                               error |-> "search failed"],
                              500, <<>>))

\* line 68: !availableSites || availableSites.length === 0
noSites(sites) == sites.kind \in {"null", "undefined"} \/ Len(sites.items) = 0

RECURSIVE flatMapValue(_)
\* line 87: .flatMap((r) => r.value)
flatMapValue(rs) ==
  IF rs = <<>> THEN <<>> ELSE Head(rs).value \o flatMapValue(Tail(rs))

\* A plausible slip: results gathered as the searches complete.
searchResults_completionOrder(results) ==
  flatMapValue(SelectSeq([k \in 1..Len(settleOrder) |-> results[settleOrder[k]]],
                         LAMBDA r : r.status = "fulfilled"))

\* lines 85-87: the fulfilled entries of the allSettled array, flattened
searchResults(results) ==
  flatMapValue(SelectSeq(results, LAMBDA r : r.status = "fulfilled"))

\* A plausible slip: Promise.all semantics, one rejection fails the request.
searchResponse_failFast(results, t) ==
  IF \E i \in 1..Len(results) : results[i].status = "rejected"
    THEN errorResponse
    ELSE addCorsHeaders(jsonResponse(
           [regular_results |-> searchResults(results), adult_results |-> <<>>],
           200, cacheHeaders(t)))

\* lines 90-100: the response after the searches settled
searchResponse(results, t) ==
  addCorsHeaders(jsonResponse(
    [regular_results |-> searchResults(results), adult_results |-> <<>>],
    200, cacheHeaders(t)))

\* A plausible slip: Promise.race semantics, the first settled promise resumes.
allSettled_any(ps) == \E i \in 1..Len(ps) : ps[i].status # "pending"

\* line 84: Promise.allSettled resolves once no promise is pending
allSettled(ps) == \A i \in 1..Len(ps) : ps[i].status # "pending"

----------------------------------------------------------------------------
(* The handler as a state machine *)

NoLookup == [outcome |-> "none", kind |-> "undefined", filter_adult_content |-> "absent"]
NoSitesYet == [outcome |-> "none", kind |-> "undefined", items |-> <<>>]
PendingPromise == [status |-> "pending", value |-> <<>>]

Init ==
  /\ request \in Requests
  /\ pc = "start"
  /\ cacheTime = -1
  /\ cacheTimeCalls = 0
  /\ settingsCalls = <<>>
  /\ lookup = NoLookup
  /\ sitesCalls = <<>>
  /\ availableSites = NoSitesYet
  /\ searchCalls = <<>>
  /\ promises = <<>>
  /\ settleOrder = <<>>
  /\ response = <<>>

\* lines 16-29: parameters read, getCacheTime() called and awaited
Begin ==
  /\ pc = "start"
  /\ pc' = "awaitCacheTime"
  /\ cacheTimeCalls' = cacheTimeCalls + 1
  /\ UNCHANGED <<request, cacheTime, settingsCalls, lookup, sitesCalls,
                 availableSites, searchCalls, promises, settleOrder, response>>

\* line 29 is outside the try block: a rejection leaves the handler
GetCacheTimeRejects ==
  /\ pc = "awaitCacheTime"
  /\ pc' = "threw"
  /\ UNCHANGED <<request, cacheTime, cacheTimeCalls, settingsCalls, lookup,
                 sitesCalls, availableSites, searchCalls, promises, settleOrder,
                 response>>

\* line 66: getAvailableApiSites(finalShouldFilter) called and awaited
CallGetAvailableApiSites(filterAdult) ==
  /\ sitesCalls' =
       Append(sitesCalls, finalShouldFilter(filterAdult, includeAdult(request)))
  /\ pc' = "awaitSites"

\* lines 29-44: cache time known, no query: empty response
GetCacheTimeResolves_NoQuery ==
  /\ pc = "awaitCacheTime"
  /\ noQuery(request)
  /\ \E t \in CacheTimes :
       /\ cacheTime' = t
       /\ response' = <<emptyQueryResponse(t)>>
  /\ pc' = "done"
  /\ UNCHANGED <<request, cacheTimeCalls, settingsCalls, lookup, sitesCalls,
                 availableSites, searchCalls, promises, settleOrder>>

\* lines 46-52, 63-66: no user name, the default filter is kept
GetCacheTimeResolves_Anonymous ==
  /\ pc = "awaitCacheTime"
  /\ ~noQuery(request)
  /\ ~Truthy(userName(request))
  /\ \E t \in CacheTimes : cacheTime' = t
  /\ CallGetAvailableApiSites(shouldFilterAdultDefault)
  /\ UNCHANGED <<request, cacheTimeCalls, settingsCalls, lookup,
                 availableSites, searchCalls, promises, settleOrder, response>>

\* lines 52-54, 57-59: getStorage() throws, caught by the inner catch
GetCacheTimeResolves_GetStorageThrows ==
  /\ pc = "awaitCacheTime"
  /\ ~noQuery(request)
  /\ Truthy(userName(request))
  /\ \E t \in CacheTimes : cacheTime' = t
  /\ lookup' = [NoLookup EXCEPT !.outcome = "getStorageThrew"]
  /\ CallGetAvailableApiSites(shouldFilterAdultDefault)
  /\ UNCHANGED <<request, cacheTimeCalls, settingsCalls,
                 availableSites, searchCalls, promises, settleOrder, response>>

\* lines 52-55: storage.getUserSettings(userName) called and awaited
GetCacheTimeResolves_Lookup ==
  /\ pc = "awaitCacheTime"
  /\ ~noQuery(request)
  /\ Truthy(userName(request))
  /\ \E t \in CacheTimes : cacheTime' = t
  /\ settingsCalls' = Append(settingsCalls, userName(request).s)
  /\ pc' = "awaitSettings"
  /\ UNCHANGED <<request, cacheTimeCalls, lookup, sitesCalls,
                 availableSites, searchCalls, promises, settleOrder, response>>

\* lines 55-56, 63-66: the settings arrive
GetUserSettingsResolves ==
  /\ pc = "awaitSettings"
  /\ \E userSettings \in SettingsValues :
       /\ lookup' = [outcome |-> "resolved", kind |-> userSettings.kind,
                     filter_adult_content |-> userSettings.filter_adult_content]
       /\ CallGetAvailableApiSites(shouldFilterAdult(userSettings))
  /\ UNCHANGED <<request, cacheTime, cacheTimeCalls, settingsCalls,
                 availableSites, searchCalls, promises, settleOrder, response>>

\* lines 55, 57-59, 63-66: the lookup rejects, caught by the inner catch
GetUserSettingsRejects ==
  /\ pc = "awaitSettings"
  /\ lookup' = [NoLookup EXCEPT !.outcome = "rejected"]
  /\ CallGetAvailableApiSites(shouldFilterAdultDefault)
  /\ UNCHANGED <<request, cacheTime, cacheTimeCalls, settingsCalls,
                 availableSites, searchCalls, promises, settleOrder, response>>

\* lines 66, 101-106: getAvailableApiSites rejects, caught by the outer catch
GetAvailableApiSitesRejects ==
  /\ pc = "awaitSites"
  /\ availableSites' = [NoSitesYet EXCEPT !.outcome = "rejected"]
  /\ response' = <<errorResponse>>
  /\ pc' = "done"
  /\ UNCHANGED <<request, cacheTime, cacheTimeCalls, settingsCalls, lookup,
                 sitesCalls, searchCalls, promises, settleOrder>>

\* lines 66-80: no sites: empty response
GetAvailableApiSitesResolves_NoSites ==
  /\ pc = "awaitSites"
  /\ \E sites \in SitesValues :
       /\ noSites(sites)
       /\ availableSites' = [outcome |-> "resolved", kind |-> sites.kind,
                             items |-> sites.items]
  /\ response' = <<noSitesResponse(cacheTime)>>
  /\ pc' = "done"
  /\ UNCHANGED <<request, cacheTime, cacheTimeCalls, settingsCalls, lookup,
                 sitesCalls, searchCalls, promises, settleOrder>>

\* lines 66-68, 83-84: one searchFromApi call per site, then await allSettled
GetAvailableApiSitesResolves_Dispatch ==
  /\ pc = "awaitSites"
  /\ \E sites \in SitesValues :
       /\ ~noSites(sites)
       /\ availableSites' = [outcome |-> "resolved", kind |-> sites.kind,
                             items |-> sites.items]
       /\ searchCalls' = searchCalls \o
            [i \in 1..Len(sites.items) |-> <<sites.items[i], query(request).s>>]
       /\ promises' = [i \in 1..Len(sites.items) |-> PendingPromise]
  /\ pc' = "awaitSettled"
  /\ UNCHANGED <<request, cacheTime, cacheTimeCalls, settingsCalls, lookup,
                 sitesCalls, settleOrder, response>>

\* a searchFromApi promise fulfils with a list of results
SearchFulfils ==
  /\ pc = "awaitSettled"
  /\ \E i \in 1..Len(promises), value \in ResultLists :
       /\ promises[i].status = "pending"
       /\ promises' = [promises EXCEPT ![i] = [status |-> "fulfilled", value |-> value]]
       /\ settleOrder' = Append(settleOrder, i)
  /\ UNCHANGED <<request, pc, cacheTime, cacheTimeCalls, settingsCalls, lookup,
                 sitesCalls, availableSites, searchCalls, response>>

\* a searchFromApi promise rejects
SearchRejects ==
  /\ pc = "awaitSettled"
  /\ \E i \in 1..Len(promises) :
       /\ promises[i].status = "pending"
       /\ promises' = [promises EXCEPT ![i] = [status |-> "rejected", value |-> <<>>]]
       /\ settleOrder' = Append(settleOrder, i)
  /\ UNCHANGED <<request, pc, cacheTime, cacheTimeCalls, settingsCalls, lookup,
                 sitesCalls, availableSites, searchCalls, response>>

\* lines 84-100: allSettled resolves, the merged results are returned
AllSettledResolves ==
  /\ pc = "awaitSettled"
  /\ allSettled(promises)
  /\ response' = <<searchResponse(promises, cacheTime)>>
  /\ pc' = "done"
  /\ UNCHANGED <<request, cacheTime, cacheTimeCalls, settingsCalls, lookup,
                 sitesCalls, availableSites, searchCalls, promises, settleOrder>>

Next ==
  \/ Begin
  \/ GetCacheTimeRejects
  \/ GetCacheTimeResolves_NoQuery
  \/ GetCacheTimeResolves_Anonymous
  \/ GetCacheTimeResolves_GetStorageThrows
  \/ GetCacheTimeResolves_Lookup
  \/ GetUserSettingsResolves
  \/ GetUserSettingsRejects
  \/ GetAvailableApiSitesRejects
  \/ GetAvailableApiSitesResolves_NoSites
  \/ GetAvailableApiSitesResolves_Dispatch
  \/ SearchFulfils
  \/ SearchRejects
  \/ AllSettledResolves

Spec == Init /\ [][Next]_vars

----------------------------------------------------------------------------
(* Properties *)

Responded == response # <<>>
Returned == response[1]
EmptyBody(r) == r.body.regular_results = <<>> /\ r.body.adult_results = <<>>
CacheHeaderNames == {"Cache-Control", "CDN-Cache-Control", "Vercel-CDN-Cache-Control"}
TrueString == <<"t","r","u","e">>

\* C1: the flag passed to getAvailableApiSites is false exactly when an
\* identity was resolved, getUserSettings returned settings whose
\* filter_adult_content is exactly false, and include_adult is exactly
\* 'true'; in every other case the flag passed is true.
C1_FilterFlag ==
  sitesCalls # <<>> =>
    /\ Len(sitesCalls) = 1
    /\ sitesCalls[1] = ~( /\ settingsCalls # <<>>
                          /\ lookup.outcome = "resolved"
                          /\ lookup.kind = "object"
                          /\ lookup.filter_adult_content = "false"
                          /\ request.include_adult.t = "string"
                          /\ request.include_adult.s = TrueString )

C1_Witness == sitesCalls = <<FALSE>>

LookupFailed ==
  \/ lookup.outcome \in {"getStorageThrew", "rejected"}
  \/ /\ lookup.outcome = "resolved"
     /\ \/ lookup.kind \in {"null", "undefined"}
        \/ lookup.filter_adult_content = "absent"

\* C2: when getStorage throws, getUserSettings rejects, or the settings are
\* null, undefined or lack filter_adult_content, the handler goes on with
\* filtering enabled (getAvailableApiSites is called with true, also under
\* include_adult=true) and the failed lookup yields no 500 response.
C2_LookupFailSafe ==
  LookupFailed =>
    /\ sitesCalls = <<TRUE>>
    /\ pc \in {"awaitSites", "awaitSettled", "done"}
    /\ (Responded /\ Returned.status = 500 => availableSites.outcome = "rejected")

C2_Witness ==
  /\ lookup.outcome = "rejected"
  /\ request.include_adult.s = TrueString
  /\ Responded
  /\ Returned.status = 200

RECURSIVE FulfilledLength(_)
FulfilledLength(ps) ==
  IF ps = <<>> THEN 0
  ELSE (IF Head(ps).status = "fulfilled" THEN Len(Head(ps).value) ELSE 0)
       + FulfilledLength(Tail(ps))

\* C3: after a dispatch to a non-empty provider list, whichever providers
\* reject, the response is 200 and regular_results holds every result of
\* every fulfilled provider and nothing else; with every provider rejected
\* it is 200 with empty regular_results.
C3_ProviderIsolation ==
  (Responded /\ Len(promises) > 0) =>
    /\ Returned.status = 200
    /\ \A i \in 1..Len(promises) :
         promises[i].status = "fulfilled" =>
           \A k \in 1..Len(promises[i].value) :
             \E m \in 1..Len(Returned.body.regular_results) :
               Returned.body.regular_results[m] = promises[i].value[k]
    /\ Len(Returned.body.regular_results) = FulfilledLength(promises)
    /\ ((\A i \in 1..Len(promises) : promises[i].status = "rejected")
          => Returned.body.regular_results = <<>>)

C3_Witness ==
  /\ Responded
  /\ \E i, j \in 1..Len(promises) :
       /\ promises[i].status = "rejected"
       /\ promises[j].status = "fulfilled"
       /\ promises[j].value # <<>>

\* C4: when getCacheTime or getAvailableApiSites fails, the handler ends by
\* returning a 500 response with empty regular_results and adult_results
\* and an error string; the error never escapes the handler.
C4_FailuresYield500 ==
  (pc \in {"done", "threw"} /\ (pc = "threw" \/ availableSites.outcome = "rejected")) =>
    /\ Responded
    /\ Returned.status = 500
    /\ EmptyBody(Returned)
    /\ "error" \in DOMAIN Returned.body

\* C5: a request whose q is missing or empty is answered, as soon as the
\* cache time is known, with status 200, empty regular_results and
\* adult_results and the three cache headers, and it never calls
\* getUserSettings, getAvailableApiSites or searchFromApi.
C5_EmptyQuery ==
  (request.q.t = "null" \/ request.q.s = <<>>) =>
    /\ settingsCalls = <<>>
    /\ sitesCalls = <<>>
    /\ searchCalls = <<>>
    /\ (cacheTime # -1 => Responded)
    /\ (Responded =>
          /\ Returned.status = 200
          /\ EmptyBody(Returned)
          /\ CacheHeaderNames \subseteq DOMAIN Returned.headers)

C5_Witness ==
  /\ request.q.t = "string"
  /\ request.q.s = <<>>
  /\ Truthy(request.user)
  /\ Responded

\* C6: when getAvailableApiSites resolves to an empty list, null or
\* undefined, the response is 200 with empty regular_results and
\* adult_results and no searchFromApi call is made.
C6_NoSites ==
  (/\ availableSites.outcome = "resolved"
   /\ (availableSites.kind # "array" \/ availableSites.items = <<>>)) =>
    /\ Responded
    /\ Returned.status = 200
    /\ EmptyBody(Returned)
    /\ searchCalls = <<>>
    /\ promises = <<>>

C6_Witness ==
  /\ availableSites.outcome = "resolved"
  /\ availableSites.kind = "null"
  /\ Responded

CacheHeadersFollow(r, t) ==
  /\ CacheHeaderNames \subseteq DOMAIN r.headers
  /\ \A h \in CacheHeaderNames :
       /\ <<"s-maxage", t>> \in r.headers[h]
       /\ \A d \in r.headers[h] : d[1] \in {"max-age", "s-maxage"} => d[2] = t
  /\ <<"max-age", t>> \in r.headers["Cache-Control"]

\* C7 as stated: every response carries the three cache headers, each
\* max-age and s-maxage equal to the value of the one getCacheTime call.
C7_EveryResponseCached ==
  /\ cacheTimeCalls <= 1
  /\ (Responded =>
        /\ cacheTimeCalls = 1
        /\ CacheHeadersFollow(Returned, cacheTime))

\* C7 amended: getCacheTime is called exactly once per request; every 200
\* response carries the three cache headers, each max-age and s-maxage
\* equal to the value that call returned; the 500 response carries no
\* cache header.
C7_OkResponsesCached ==
  /\ cacheTimeCalls = (IF pc = "start" THEN 0 ELSE 1)
  /\ (Responded =>
        /\ cacheTime \in CacheTimes
        /\ IF Returned.status = 200
             THEN CacheHeadersFollow(Returned, cacheTime)
             ELSE Returned.status = 500 /\ DOMAIN Returned.headers = {})

C7_Witness ==
  /\ Responded
  /\ Returned.status = 200
  /\ cacheTime = 7200
  /\ Len(promises) > 0

\* C8: the identity used for the settings lookup is the user parameter when
\* it is present and non-empty, whatever the Authorization header; otherwise
\* it is the text after 'Bearer ' of a header starting with 'Bearer '; when
\* neither yields a non-empty name getUserSettings is never called.
C8_Identity ==
  LET u == request.user
      h == request.Authorization
      fromParam == u.t = "string" /\ Len(u.s) > 0
      fromHeader == /\ ~fromParam
                    /\ h.t = "string"
                    /\ Len(h.s) > 7
                    /\ SubSeq(h.s, 1, 7) = <<"B","e","a","r","e","r"," ">>
  IN  /\ Len(settingsCalls) <= 1
      /\ fromParam => \A k \in 1..Len(settingsCalls) : settingsCalls[k] = u.s
      /\ fromHeader =>
           \A k \in 1..Len(settingsCalls) : settingsCalls[k] = SubSeq(h.s, 8, Len(h.s))
      /\ (~fromParam /\ ~fromHeader) => settingsCalls = <<>>
      /\ (pc = "awaitSettings" \/ lookup.outcome \in {"resolved", "rejected"})
           => Len(settingsCalls) = 1

C8_Witness ==
  /\ settingsCalls = << <<"a">> >>
  /\ request.Authorization.s = <<"B","e","a","r","e","r"," ","b">>

\* C9: searchFromApi is called exactly once per provider, with the request's
\* query, all calls made before any is awaited and none repeated, and no
\* response exists while any of the dispatched calls is still pending.
C9_FanOutFanIn ==
  /\ IF availableSites.outcome = "resolved"
       THEN /\ searchCalls = [i \in 1..Len(availableSites.items) |->
                                <<availableSites.items[i], request.q.s>>]
            /\ Len(promises) = Len(availableSites.items)
       ELSE searchCalls = <<>> /\ promises = <<>>
  /\ Responded => \A i \in 1..Len(promises) : promises[i].status # "pending"
  /\ pc = "awaitSettled" => ~Responded

C9_Witness ==
  /\ pc = "awaitSettled"
  /\ Len(promises) = 2
  /\ promises[1].status = "pending"
  /\ promises[2].status = "fulfilled"
  /\ ~Responded

RECURSIVE MergedUpTo(_)
MergedUpTo(n) ==
  IF n = 0 THEN <<>>
  ELSE MergedUpTo(n - 1)
       \o (IF promises[n].status = "fulfilled" THEN promises[n].value ELSE <<>>)

\* C10: regular_results is the concatenation of the fulfilled providers'
\* lists in provider order, each list kept whole and in order, nothing moved
\* to adult_results, whatever the order in which the providers completed.
C10_OrderedMerge ==
  (Responded /\ Len(promises) > 0) =>
    /\ Returned.body.regular_results = MergedUpTo(Len(promises))
    /\ Returned.body.adult_results = <<>>

C10_Witness ==
  /\ Responded
  /\ settleOrder = <<2, 1>>
  /\ promises[1] = [status |-> "fulfilled", value |-> <<"r2", "r1">>]
  /\ promises[2] = [status |-> "fulfilled", value |-> <<"r1">>]
  /\ Returned.body.regular_results = <<"r2", "r1", "r1">>

====
